---- MODULE Spec2Model ----
(***************************************************************************)
(* A model of internal/cmd/builtin/cmd/generate.go: the reflective encoder *)
(* constructValue / indirectType / types that turns a Go value into a      *)
(* jennifer code expression, and the generate / walkDirs driver that       *)
(* writes one flux_gen.go per package directory plus the import file.      *)
(***************************************************************************)
EXTENDS Integers, Sequences, FiniteSets, TLC

VARIABLES
    v,        \* encoder: the reflect.Value handed to constructValue
    pc,       \* encoder: "input", "encoded", "again", "compiled"
    seed,     \* encoder: map iteration start of the first run
    seed2,    \* encoder: map iteration start of the second run
    out,      \* encoder: (jen.Code, error) of the first run
    out2,     \* encoder: (jen.Code, error) of an independent second run
    back,     \* encoder: the value the emitted expression evaluates to
    tree,       \* driver: the tree under rootDir, path -> "none" | "file" | "dir"
    flags,    \* driver: the --pkg and --root-dir flags
    stack,    \* driver: the walkDirs calls in progress, innermost last
    log,      \* driver: the directories handed to the callback, with the outcome
    goPackages, \* driver: the package paths collected for the import file
    units,    \* driver: the flux_gen.go files saved
    imports,  \* driver: the import files saved
    dpc,      \* driver: "walk", "returned", "walked", "done"
    derr,     \* driver: the error walkDirs / generate return, "" for nil
    heap,     \* recursion: the value graph, node -> kind and contained values
    rstack,   \* recursion: the constructValue calls in progress, innermost last
    rpc,      \* recursion: "start", "run", "returned", "overflow"
    rerr,     \* recursion: the error returned, "" for nil
    peak      \* recursion: the deepest the call stack has been

encVars == <<v, pc, seed, seed2, out, out2, back>>
drvVars == <<tree, flags, stack, log, goPackages, units, imports, dpc, derr>>
recVars == <<heap, rstack, rpc, rerr, peak>>
vars == <<encVars, drvVars, recVars>>

(***************************************************************************)
(* Bounds of the input universe.                                           *)
(***************************************************************************)
MaxLen == 2      \* longest slice / array / map built around a value
MaxDepth == 2    \* wrappers stacked around a seed value
MaxDirs == 3     \* directories of the tree generate walks, rootDir included
MaxNodes == 2    \* containers of a value graph
MaxStack == 6    \* call depth at which the goroutine stack is exhausted

(***************************************************************************)
(* reflect.Type.  elem is <<>>, <<T>> (array, slice, pointer, chan) or     *)
(* <<K, V>> (map) or the field types (struct).                             *)
(***************************************************************************)
ScalarKinds ==
    {"bool", "int", "int8", "int16", "int32", "int64",
     "uint", "uint8", "uint16", "uint32", "uint64", "uintptr",
     "float32", "float64", "complex64", "complex128", "string"}

Builtin(k) ==
    [kind |-> k, pkg |-> "", name |-> k, elem |-> <<>>, fields |-> <<>>, len |-> 0]
NamedScalar(k, p, n) ==
    [kind |-> k, pkg |-> p, name |-> n, elem |-> <<>>, fields |-> <<>>, len |-> 0]
SliceOf(T) ==
    [kind |-> "slice", pkg |-> "", name |-> "", elem |-> <<T>>, fields |-> <<>>, len |-> 0]
ArrayOf(n, T) ==
    [kind |-> "array", pkg |-> "", name |-> "", elem |-> <<T>>, fields |-> <<>>, len |-> n]
PtrTo(T) ==
    [kind |-> "ptr", pkg |-> "", name |-> "", elem |-> <<T>>, fields |-> <<>>, len |-> 0]
MapOf(K, V) ==
    [kind |-> "map", pkg |-> "", name |-> "", elem |-> <<K, V>>, fields |-> <<>>, len |-> 0]
ChanOf(T) ==
    [kind |-> "chan", pkg |-> "", name |-> "", elem |-> <<T>>, fields |-> <<>>, len |-> 0]
FuncT ==
    [kind |-> "func", pkg |-> "", name |-> "", elem |-> <<>>, fields |-> <<>>, len |-> 0]
UnsafePointerT ==
    [kind |-> "unsafe.Pointer", pkg |-> "unsafe", name |-> "Pointer",
     elem |-> <<>>, fields |-> <<>>, len |-> 0]
InterfaceT(p, n) ==
    [kind |-> "interface", pkg |-> p, name |-> n, elem |-> <<>>, fields |-> <<>>, len |-> 0]
StructT(p, n, fds, ts) ==
    [kind |-> "struct", pkg |-> p, name |-> n, elem |-> ts, fields |-> fds, len |-> 0]

\* The declared (named) types of the inputs.
IntT == Builtin("int")
Int64T == Builtin("int64")
KindT == NamedScalar("int", "ast", "OperatorKind")
SmallT == NamedScalar("int8", "ast", "Small")
NodeT == InterfaceT("ast", "Node")
PairT ==
    StructT("ast", "Pair",
            <<[fname |-> "A", exported |-> TRUE], [fname |-> "B", exported |-> TRUE]>>,
            <<NodeT, NodeT>>)
MixedT ==
    StructT("ast", "Mixed",
            <<[fname |-> "A", exported |-> TRUE], [fname |-> "b", exported |-> FALSE]>>,
            <<NodeT, NodeT>>)
HiddenT ==
    StructT("ast", "Hidden",
            <<[fname |-> "a", exported |-> FALSE], [fname |-> "B", exported |-> TRUE]>>,
            <<NodeT, NodeT>>)
OpT ==
    StructT("ast", "Op",
            <<[fname |-> "Operator", exported |-> TRUE], [fname |-> "Value", exported |-> TRUE]>>,
            <<KindT, Int64T>>)
DeclaredTypes ==
    {Builtin(k) : k \in ScalarKinds} \cup {KindT, SmallT, NodeT, PairT, MixedT, HiddenT, OpT}

(***************************************************************************)
(* reflect.Value.  val is the scalar payload: the integer itself, 0/1 for  *)
(* a bool, k for the float k/2, 16*re + im for a complex, an index into    *)
(* StrTab for a string.  elems holds array / slice elements, the pointee,  *)
(* the value held by an interface slot, or the struct fields in order;     *)
(* ents holds the map entries <<key, value>> in storage order.             *)
(***************************************************************************)
StrTab == <<"", "a", "flux">>

Scalar(T, x) == [typ |-> T, isnil |-> FALSE, val |-> x, elems |-> <<>>, ents |-> <<>>]
NilOf(T) == [typ |-> T, isnil |-> TRUE, val |-> 0, elems |-> <<>>, ents |-> <<>>]
SliceV(T, es) == [typ |-> SliceOf(T), isnil |-> FALSE, val |-> 0, elems |-> es, ents |-> <<>>]
ArrayV(T, es) ==
    [typ |-> ArrayOf(Len(es), T), isnil |-> FALSE, val |-> 0, elems |-> es, ents |-> <<>>]
PtrV(x) == [typ |-> PtrTo(x.typ), isnil |-> FALSE, val |-> 0, elems |-> <<x>>, ents |-> <<>>]
IfaceV(x) == [typ |-> NodeT, isnil |-> FALSE, val |-> 0, elems |-> <<x>>, ents |-> <<>>]
MapV(K, V, es) == [typ |-> MapOf(K, V), isnil |-> FALSE, val |-> 0, elems |-> <<>>, ents |-> es]
StructV(T, fds) == [typ |-> T, isnil |-> FALSE, val |-> 0, elems |-> fds, ents |-> <<>>]
ChanV == [typ |-> ChanOf(IntT), isnil |-> FALSE, val |-> 0, elems |-> <<>>, ents |-> <<>>]
FuncV == [typ |-> FuncT, isnil |-> FALSE, val |-> 0, elems |-> <<>>, ents |-> <<>>]
UnsafeV == [typ |-> UnsafePointerT, isnil |-> FALSE, val |-> 0, elems |-> <<>>, ents |-> <<>>]

Kind(x) == x.typ.kind

IsNil(x) == x.isnil
NumField(x) == Len(x.typ.fields)

(***************************************************************************)
(* jennifer code values (jen.Code), as the trees the calls build.          *)
(***************************************************************************)
Qual(p, n) == [op |-> "qual", pkg |-> p, name |-> n]
Index(items, rest) == [op |-> "index", idx |-> items, x |-> rest]
Star(rest) == [op |-> "star", x |-> rest]
Nil == [op |-> "nil"]
Id(n) == [op |-> "id", id |-> n]
AddrOf(c) == [op |-> "addr", x |-> c]
Values(s, items) == [op |-> "values", te |-> s, items |-> items]
ValuesDict(s, d) == [op |-> "dict", te |-> s, dict |-> d]
\* jen.Lit keeps the Go value it is given: its dynamic type and its payload.
Lit(x) == [op |-> "lit", ltyp |-> x.typ.name, lpkg |-> x.typ.pkg, lval |-> x.val]

\* The (jen.Code, error) pair a call returns; NoCode is the nil jen.Code,
\* NoErr the nil error.
NoCode == [op |-> "none"]
NoErr == <<>>
Ok(c) == [code |-> c, err |-> NoErr]
Fail(e) == [code |-> NoCode, err |-> e]
UnsupportedKind(k) == <<"unsupport value kind", k>>

Min(S) == CHOOSE i \in S : \A j \in S : i <= j
\* The error of the first failing call of a loop, NoErr when none fails.
FirstErr(rs) ==
    LET bad == {i \in DOMAIN rs : rs[i].err # NoErr}
    IN  IF bad = {} THEN NoErr ELSE rs[Min(bad)].err

(***************************************************************************)
(* indirectType                                                            *)
(***************************************************************************)
RECURSIVE indirectType(_)
indirectType(typ) ==
    CASE typ.kind = "map" ->
           Index(<<indirectType(typ.elem[1])>>, indirectType(typ.elem[2]))
      [] typ.kind = "ptr" -> Star(indirectType(typ.elem[1]))
      [] typ.kind \in {"array", "slice"} -> Index(<<>>, indirectType(typ.elem[1]))
      [] OTHER -> Qual(typ.pkg, typ.name)

(***************************************************************************)
(* types: reflect.Kind -> reflect.Type of the primitive types              *)
(***************************************************************************)
\* Faulty variant: the float32 row of the table names the float64 type.
types_float32As64 ==
    [k \in ScalarKinds |-> IF k = "float32" THEN Builtin("float64") ELSE Builtin(k)]

types ==
    [k \in ScalarKinds |->
        CASE k = "bool" -> Builtin("bool")
          [] k = "int" -> Builtin("int")
          [] k = "int8" -> Builtin("int8")
          [] k = "int16" -> Builtin("int16")
          [] k = "int32" -> Builtin("int32")
          [] k = "int64" -> Builtin("int64")
          [] k = "uint" -> Builtin("uint")
          [] k = "uint8" -> Builtin("uint8")
          [] k = "uint16" -> Builtin("uint16")
          [] k = "uint32" -> Builtin("uint32")
          [] k = "uint64" -> Builtin("uint64")
          [] k = "uintptr" -> Builtin("uintptr")
          [] k = "float32" -> Builtin("float32")
          [] k = "float64" -> Builtin("float64")
          [] k = "complex64" -> Builtin("complex64")
          [] k = "complex128" -> Builtin("complex128")
          [] k = "string" -> Builtin("string")]

\* reflect.Value.Convert between scalar types: an integer is reduced to the
\* width of the target (8 and 16 bit widths are modelled bit-exactly, the
\* inputs stay inside the wider ones); every other payload is kept.
WrapSigned(x, w) == ((x + w \div 2) % w) - w \div 2
Convert(x, T) ==
    LET y == CASE T.kind = "int8" -> WrapSigned(x.val, 256)
               [] T.kind = "int16" -> WrapSigned(x.val, 65536)
               [] T.kind = "uint8" -> x.val % 256
               [] T.kind = "uint16" -> x.val % 65536
               [] OTHER -> x.val
    IN  [x EXCEPT !.typ = T, !.val = y]

\* reflect.Value.MapKeys: the keys (as indices into the stored entries) in
\* the order this run happens to iterate them, which starts anywhere.
MapKeys(x, sd) ==
    LET n == Len(x.ents)
    IN  [i \in 1..n |-> ((i - 1 + sd) % n) + 1]

\* Faulty variant: the visibility check is dropped, every field is read.
CanInterface_always(x, i) == TRUE

\* reflect.Value.CanInterface of field i of a value that is itself readable.
CanInterface(x, i) == x.typ.fields[i].exported

(***************************************************************************)
(* constructValue, one operator per case of the switch.  sd is the map     *)
(* iteration start of the run.                                             *)
(***************************************************************************)
RECURSIVE constructValue(_, _)

constructArray(x, sd) ==
    LET s == indirectType(x.typ)
        rs == [i \in 1..Len(x.elems) |-> constructValue(x.elems[i], sd)]
    IN  IF FirstErr(rs) # NoErr THEN Fail(FirstErr(rs))
        ELSE Ok(Values(s, [i \in 1..Len(x.elems) |-> rs[i].code]))

\* Faulty variant: no nil check, a nil slice is emitted as an empty literal.
constructSlice_noNilCheck(x, sd) ==
    LET s == indirectType(x.typ)
        rs == [i \in 1..Len(x.elems) |-> constructValue(x.elems[i], sd)]
    IN  IF FirstErr(rs) # NoErr THEN Fail(FirstErr(rs))
        ELSE Ok(Values(s, [i \in 1..Len(x.elems) |-> rs[i].code]))

constructSlice(x, sd) ==
    IF IsNil(x) THEN Ok(Nil)
    ELSE
    LET s == indirectType(x.typ)
        rs == [i \in 1..Len(x.elems) |-> constructValue(x.elems[i], sd)]
    IN  IF FirstErr(rs) # NoErr THEN Fail(FirstErr(rs))
        ELSE Ok(Values(s, [i \in 1..Len(x.elems) |-> rs[i].code]))

\* Faulty variant: the held value is emitted inside a conversion to the slot's type.
constructInterface_converted(x, sd) ==
    IF IsNil(x) THEN Ok(Nil)
    ELSE LET r == constructValue(x.elems[1], sd)
         IN  IF r.err # NoErr THEN r
             ELSE Ok([op |-> "call", te |-> indirectType(x.typ), items |-> <<r.code>>])

constructInterface(x, sd) ==
    IF IsNil(x) THEN Ok(Nil) ELSE constructValue(x.elems[1], sd)

\* Faulty variant: the error of the pointee is returned next to the built expression.
constructPtr_partial(x, sd) ==
    IF IsNil(x) THEN Ok(Nil)
    ELSE LET r == constructValue(x.elems[1], sd)
         IN  [code |-> AddrOf(r.code), err |-> r.err]

constructPtr(x, sd) ==
    IF IsNil(x) THEN Ok(Nil)
    ELSE LET r == constructValue(x.elems[1], sd)
         IN  IF r.err # NoErr THEN Fail(r.err) ELSE Ok(AddrOf(r.code))

constructMap(x, sd) ==
    IF IsNil(x) THEN Ok(Nil)
    ELSE
    LET s == indirectType(x.typ)
        keys == MapKeys(x, sd)
        n == Len(x.ents)
        \* the calls in the order the loop makes them: key, value, key, ...
        rs == [j \in 1..(2 * n) |->
                 constructValue(x.ents[keys[(j + 1) \div 2]][2 - (j % 2)], sd)]
    IN  IF FirstErr(rs) # NoErr THEN Fail(FirstErr(rs))
        ELSE Ok(ValuesDict(s, {<<rs[2 * i - 1].code, rs[2 * i].code>> : i \in 1..n}))

\* Faulty variant: the fields are visited in an order that varies from run to run.
constructStruct_anyOrder(x, sd) ==
    LET s == indirectType(x.typ)
        n == NumField(x)
        at == [i \in 1..n |-> ((i - 1 + sd) % n) + 1]
        seen == {i \in 1..n : CanInterface(x, i)}
        rs == [j \in 1..n |->
                 IF at[j] \in seen THEN constructValue(x.elems[at[j]], sd) ELSE Ok(NoCode)]
    IN  IF FirstErr(rs) # NoErr THEN Fail(FirstErr(rs))
        ELSE Ok(ValuesDict(s, {<<Id(x.typ.fields[at[j]].fname), rs[j].code>> :
                                 j \in {k \in 1..n : at[k] \in seen}}))

constructStruct(x, sd) ==
    LET s == indirectType(x.typ)
        seen == {i \in 1..NumField(x) : CanInterface(x, i)}
        rs == [i \in 1..NumField(x) |->
                 IF i \in seen THEN constructValue(x.elems[i], sd) ELSE Ok(NoCode)]
    IN  IF FirstErr(rs) # NoErr THEN Fail(FirstErr(rs))
        ELSE Ok(ValuesDict(s, {<<Id(x.typ.fields[i].fname), rs[i].code>> : i \in seen}))

constructScalar(x, sd) ==
    LET typ == types[Kind(x)]
        cv == Convert(x, typ)
    IN  Ok(Lit(cv))

constructValue(x, sd) ==
    CASE Kind(x) = "array" -> constructArray(x, sd)
      [] Kind(x) = "slice" -> constructSlice(x, sd)
      [] Kind(x) = "interface" -> constructInterface(x, sd)
      [] Kind(x) = "ptr" -> constructPtr(x, sd)
      [] Kind(x) = "map" -> constructMap(x, sd)
      [] Kind(x) = "struct" -> constructStruct(x, sd)
      [] Kind(x) \in ScalarKinds -> constructScalar(x, sd)
      [] OTHER -> Fail(UnsupportedKind(Kind(x)))

(***************************************************************************)
(* The inputs: every scalar kind at the edges of its width, the values     *)
(* with no encoding rule, and the containers built around them.            *)
(***************************************************************************)
ScalarPayloads(k) ==
    CASE k = "bool" -> {0, 1}
      [] k = "int8" -> {-128, 0, 127}
      [] k = "int16" -> {-32768, 300}
      [] k \in {"int", "int32", "int64"} -> {-1, 70000}
      [] k = "uint8" -> {0, 255}
      [] k = "uint16" -> {65535}
      [] k \in {"uint", "uint32", "uint64", "uintptr"} -> {0, 70000}
      [] k \in {"float32", "float64"} -> {0, 3}
      [] k \in {"complex64", "complex128"} -> {0, 19}
      [] k = "string" -> DOMAIN StrTab

ScalarInputs ==
    {Scalar(Builtin(k), x) : <<k, x>> \in {kx \in ScalarKinds \X (-32768..70000) :
                                            kx[2] \in ScalarPayloads(kx[1])}}
    \cup {Scalar(KindT, 0), Scalar(KindT, 2), Scalar(SmallT, -128)}

OpV == StructV(OpT, <<Scalar(KindT, 2), Scalar(Int64T, 70000)>>)
NilNode == NilOf(NodeT)

\* The values the containers are built around.
SeedInputs ==
    {Scalar(IntT, 1), Scalar(Builtin("int8"), -128), Scalar(Builtin("float32"), 3),
     Scalar(Builtin("string"), 3), Scalar(KindT, 2), ChanV, FuncV, OpV,
     SliceV(IntT, <<>>), NilOf(SliceOf(IntT))}

\* A value as the content of an interface slot (a slot holds no slot).
InSlot(x) == IF Kind(x) = "interface" THEN x ELSE IfaceV(x)

\* What stands next to a value in a container of interface slots.
Fillers == {NilNode, IfaceV(FuncV)}

\* The zero value of a type.
RECURSIVE Zero(_)
Zero(T) ==
    CASE T.kind \in ScalarKinds -> Scalar(T, IF T.kind = "string" THEN 1 ELSE 0)
      [] T.kind = "array" ->
           [typ |-> T, isnil |-> FALSE, val |-> 0,
            elems |-> [i \in 1..T.len |-> Zero(T.elem[1])], ents |-> <<>>]
      [] T.kind = "struct" -> StructV(T, [i \in 1..Len(T.elem) |-> Zero(T.elem[i])])
      [] OTHER -> NilOf(T)

\* Go's comparable: what may be a map key.
RECURSIVE Comparable(_)
Comparable(x) ==
    CASE Kind(x) \in {"slice", "map", "func"} -> FALSE
      [] Kind(x) \in {"array", "struct"} \/ (Kind(x) = "interface" /\ ~IsNil(x)) ->
           \A i \in 1..Len(x.elems) : Comparable(x.elems[i])
      [] OTHER -> TRUE

\* x first, then n - 1 copies of f.
Lead(x, f, n) == [i \in 1..n |-> IF i = 1 THEN x ELSE f]
\* n - 1 copies of f, then x.
Trail(x, f, n) == [i \in 1..n |-> IF i = n THEN x ELSE f]

\* The pointer, slot, one-element slice, one-entry map and struct around x.
CoreWrap(x) ==
    {PtrV(x), InSlot(x), SliceV(x.typ, <<x>>),
     MapV(IntT, x.typ, <<<<Scalar(IntT, 1), x>>>>),
     StructV(MixedT, <<InSlot(x), IfaceV(ChanV)>>),
     StructV(PairT, <<NilNode, InSlot(x)>>)}

\* Every container around x.
Wrap(x) ==
    LET T == x.typ
        z == Zero(T)
        key(i) == Scalar(IntT, i)
    IN  CoreWrap(x)
        \cup {NilOf(SliceOf(T)), NilOf(PtrTo(T)), NilOf(MapOf(IntT, T))}
        \cup {SliceV(T, Lead(x, z, n)) : n \in 0..MaxLen}
        \cup {ArrayV(T, Lead(x, z, n)) : n \in 0..MaxLen}
        \cup {SliceV(NodeT, s) :
                s \in UNION {{Lead(InSlot(x), f, n), Trail(InSlot(x), f, n)} :
                               <<f, n>> \in Fillers \X (1..MaxLen)}}
        \cup {MapV(IntT, T, [i \in 1..n |-> <<key(i), Lead(x, z, n)[i]>>]) : n \in 0..MaxLen}
        \cup {MapV(IntT, NodeT, [i \in 1..n |-> <<key(i), Lead(InSlot(x), f, n)[i]>>]) :
                <<f, n>> \in Fillers \X (1..MaxLen)}
        \cup (IF Comparable(x)
              THEN {MapV(T, IntT, <<<<x, key(1)>>>>)}
                   \cup {MapV(NodeT, IntT,
                              [i \in 1..n |-> <<Lead(InSlot(x), IfaceV(ChanV), n)[i], key(i)>>]) :
                           n \in 1..MaxLen}
              ELSE {})
        \cup {StructV(PairT, <<InSlot(x), f>>) : f \in Fillers}
        \cup {StructV(PairT, <<f, InSlot(x)>>) : f \in Fillers}
        \cup {StructV(MixedT, <<InSlot(x), f>>) : f \in Fillers}
        \cup {StructV(MixedT, <<f, InSlot(x)>>) : f \in Fillers}
        \cup {StructV(HiddenT, <<InSlot(x), f>>) : f \in Fillers}

RECURSIVE CoreChain(_)
CoreChain(d) ==
    IF d = 0 THEN SeedInputs ELSE UNION {CoreWrap(x) : x \in CoreChain(d - 1)}

\* The inputs with up to depth containers around a seed value.  They are
\* finite trees of types that are not self-referential; value graphs and
\* self-referential types are the subject of the recursion machine below.
Inputs(depth) ==
    ScalarInputs \cup {ChanV, FuncV, UnsafeV, NilNode}
    \cup UNION {UNION {Wrap(x) : x \in CoreChain(d - 1)} : d \in 1..depth}

Seeds == 0..(MaxLen - 1)

(***************************************************************************)
(* What the emitted expression means to the Go compiler: the value of      *)
(* `var pkgAST = <expression>`.  Invalid stands for source that does not   *)
(* compile; NoCtx for a position that imposes no type.                     *)
(***************************************************************************)
InvalidT ==
    [kind |-> "invalid", pkg |-> "", name |-> "", elem |-> <<>>, fields |-> <<>>, len |-> 0]
NoCtx == InvalidT
Invalid == NilOf(InvalidT)

LookupType(p, n) ==
    LET found == {T \in DeclaredTypes : T.pkg = p /\ T.name = n}
    IN  IF found = {} THEN InvalidT ELSE CHOOSE T \in found : TRUE

RECURSIVE TypeOf(_)
TypeOf(te) ==
    CASE te.op = "qual" -> LookupType(te.pkg, te.name)
      [] te.op = "star" ->
           IF TypeOf(te.x) = InvalidT THEN InvalidT ELSE PtrTo(TypeOf(te.x))
      [] te.op = "index" /\ te.idx = <<>> ->
           IF TypeOf(te.x) = InvalidT THEN InvalidT ELSE SliceOf(TypeOf(te.x))
      \* [K]V: an array type whose length is a type, not a constant
      [] te.op = "index" /\ te.idx # <<>> -> InvalidT
      [] OTHER -> InvalidT

\* A typed value stored where the context wants type ctx.
Assign(x, ctx) ==
    CASE x = Invalid -> Invalid
      [] ctx = NoCtx -> x
      [] ctx.kind = "interface" ->
           [typ |-> ctx, isnil |-> FALSE, val |-> 0, elems |-> <<x>>, ents |-> <<>>]
      [] x.typ = ctx -> x
      [] OTHER -> Invalid

\* jennifer renders these literals bare, as untyped constants.
UntypedLit == {"bool", "string", "int", "complex128", "float64"}

RECURSIVE Eval(_, _)
Eval(e, ctx) ==
    CASE e.op = "nil" ->
           IF ctx.kind \in {"ptr", "slice", "map", "interface", "chan", "func"}
           THEN NilOf(ctx) ELSE Invalid
      [] e.op = "lit" ->
           IF e.ltyp \in UntypedLit /\ ctx.kind \in ScalarKinds
           THEN \* a constant takes the type of its context (same kind here)
                IF ctx.kind = e.ltyp THEN Scalar(ctx, e.lval) ELSE Invalid
           ELSE Assign(Scalar(LookupType(e.lpkg, e.ltyp), e.lval), ctx)
      [] e.op = "addr" ->
           \* only a composite literal may be the operand of &
           IF e.x.op \in {"values", "dict"}
           THEN LET y == Eval(e.x, NoCtx)
                IN  IF y = Invalid THEN Invalid ELSE Assign(PtrV(y), ctx)
           ELSE Invalid
      [] e.op = "values" ->
           LET T == TypeOf(e.te)
               ys == [i \in 1..Len(e.items) |->
                        IF T = InvalidT THEN Invalid ELSE Eval(e.items[i], T.elem[1])]
           IN  IF T = InvalidT \/ \E i \in DOMAIN ys : ys[i] = Invalid THEN Invalid
               ELSE Assign([typ |-> T, isnil |-> FALSE, val |-> 0,
                            elems |-> ys, ents |-> <<>>], ctx)
      [] e.op = "dict" ->
           LET T == TypeOf(e.te)
           IN  CASE T.kind = "struct" ->
                      LET given(i) == {kv \in e.dict : kv[1] = Id(T.fields[i].fname)}
                          ys == [i \in 1..Len(T.fields) |->
                                   IF given(i) = {} THEN Zero(T.elem[i])
                                   ELSE Eval((CHOOSE kv \in given(i) : TRUE)[2], T.elem[i])]
                      IN  IF \E i \in DOMAIN ys : ys[i] = Invalid THEN Invalid
                          ELSE Assign(StructV(T, ys), ctx)
                 [] OTHER -> Invalid
      [] OTHER -> Invalid

\* reflect.DeepEqual, maps compared as sets of entries.
RECURSIVE DeepEqual(_, _)
DeepEqual(a, b) ==
    /\ a.typ = b.typ
    /\ a.isnil = b.isnil
    /\ a.val = b.val
    /\ Len(a.elems) = Len(b.elems)
    /\ \A i \in 1..Len(a.elems) : DeepEqual(a.elems[i], b.elems[i])
    /\ Len(a.ents) = Len(b.ents)
    /\ \A i \in 1..Len(a.ents) : \E j \in 1..Len(b.ents) :
         DeepEqual(a.ents[i][1], b.ents[j][1]) /\ DeepEqual(a.ents[i][2], b.ents[j][2])
    /\ \A j \in 1..Len(b.ents) : \E i \in 1..Len(a.ents) :
         DeepEqual(a.ents[i][1], b.ents[j][1]) /\ DeepEqual(a.ents[i][2], b.ents[j][2])

\* x with every unexported struct field at its zero value.
RECURSIVE Restrict(_)
Restrict(x) ==
    [x EXCEPT
       !.elems = [i \in 1..Len(x.elems) |->
                    IF Kind(x) = "struct" /\ ~x.typ.fields[i].exported
                    THEN Zero(x.typ.elem[i]) ELSE Restrict(x.elems[i])],
       !.ents = [i \in 1..Len(x.ents) |-> <<Restrict(x.ents[i][1]), Restrict(x.ents[i][2])>>]]

\* The value as reflect.ValueOf / DeepEqual see it: out of its slot.
Unslot(x) == IF Kind(x) = "interface" /\ ~IsNil(x) THEN x.elems[1] ELSE x

(***************************************************************************)
(* The encoder runs: constructValue applied to an input, twice.            *)
(***************************************************************************)
NoValue == NilOf(FuncT)

DrvIdle ==
    /\ tree = <<>>
    /\ flags = [pkgName |-> <<>>, rootDir |-> <<>>]
    /\ stack = <<>>
    /\ log = <<>>
    /\ goPackages = <<>>
    /\ units = <<>>
    /\ imports = <<>>
    /\ dpc = "idle"
    /\ derr = ""

RecIdle ==
    /\ heap = <<>>
    /\ rstack = <<>>
    /\ rpc = "idle"
    /\ rerr = ""
    /\ peak = 0

Init ==
    /\ DrvIdle
    /\ RecIdle
    /\ v \in Inputs(MaxDepth)
    /\ pc = "input"
    /\ seed = 0
    /\ seed2 = 0
    /\ out = Ok(NoCode)
    /\ out2 = Ok(NoCode)
    /\ back = NoValue

Encode ==
    /\ pc = "input"
    /\ \E sd \in Seeds :
         /\ seed' = sd
         /\ out' = constructValue(v, sd)
    /\ pc' = "encoded"
    /\ UNCHANGED <<v, seed2, out2, back>>
    /\ UNCHANGED <<drvVars, recVars>>

EncodeAgain ==
    /\ pc = "encoded"
    /\ \E sd \in Seeds :
         /\ seed2' = sd
         /\ out2' = constructValue(v, sd)
    /\ pc' = "again"
    /\ UNCHANGED <<v, seed, out, back>>
    /\ UNCHANGED <<drvVars, recVars>>

\* The generated file is compiled and pkgAST evaluated.
Compile ==
    /\ pc = "encoded"
    /\ out.err = NoErr
    /\ back' = Eval(out.code, NoCtx)
    /\ pc' = "compiled"
    /\ UNCHANGED <<v, seed, seed2, out, out2>>
    /\ UNCHANGED <<drvVars, recVars>>

Next == Encode \/ EncodeAgain \/ Compile

Spec == Init /\ [][Next]_vars

(***************************************************************************)
(* Properties of the encoder.                                              *)
(***************************************************************************)
\* The kinds with no rule among the values the recursion may visit: the
\* elements of arrays and non-nil slices, pointees, held values, map keys
\* and values, exported struct fields.
RECURSIVE UnsupportedIn(_)
UnsupportedIn(x) ==
    CASE Kind(x) \in ScalarKinds -> {}
      [] Kind(x) \in {"array", "slice", "ptr", "interface"} ->
           UNION {UnsupportedIn(x.elems[i]) : i \in 1..Len(x.elems)}
      [] Kind(x) = "map" ->
           UNION {UnsupportedIn(x.ents[i][1]) \cup UnsupportedIn(x.ents[i][2]) :
                    i \in 1..Len(x.ents)}
      [] Kind(x) = "struct" ->
           UNION {UnsupportedIn(x.elems[i]) :
                    i \in {j \in 1..Len(x.elems) : x.typ.fields[j].exported}}
      [] OTHER -> {Kind(x)}

\* x with every non-nil empty slice replaced by the nil slice of its type.
RECURSIVE NilForEmpty(_)
NilForEmpty(x) ==
    IF Kind(x) = "slice" /\ ~IsNil(x) /\ Len(x.elems) = 0 THEN NilOf(x.typ)
    ELSE [x EXCEPT
            !.elems = [i \in 1..Len(x.elems) |-> NilForEmpty(x.elems[i])],
            !.ents = [i \in 1..Len(x.ents) |->
                        <<NilForEmpty(x.ents[i][1]), NilForEmpty(x.ents[i][2])>>]]

\* A non-nil empty slice sits where the recursion visits.
RECURSIVE HasEmptySlice(_)
HasEmptySlice(x) ==
    \/ Kind(x) = "slice" /\ ~IsNil(x) /\ Len(x.elems) = 0
    \/ \E i \in 1..Len(x.elems) :
         /\ Kind(x) = "struct" => x.typ.fields[i].exported
         /\ HasEmptySlice(x.elems[i])
    \/ \E i \in 1..Len(x.ents) : HasEmptySlice(x.ents[i][1]) \/ HasEmptySlice(x.ents[i][2])

\* Every map in x, visited or not, has at most one entry.
RECURSIVE SmallMaps(_)
SmallMaps(x) ==
    /\ Len(x.ents) <= 1
    /\ \A i \in 1..Len(x.elems) : SmallMaps(x.elems[i])
    /\ \A i \in 1..Len(x.ents) : SmallMaps(x.ents[i][1]) /\ SmallMaps(x.ents[i][2])

\* C1: compiling and evaluating the emitted expression yields a value
\* deeply equal to the input restricted to its exported fields.
RoundTrip == pc = "compiled" => DeepEqual(back, Restrict(Unslot(v)))

\* C2: a nil slice is emitted as the nil literal, a non-nil empty slice as a
\* composite literal of its type with no elements, and the two encodings
\* differ at the top level and wherever the empty slice is nested.
NilDistinction ==
    pc = "encoded" =>
      /\ Kind(v) = "slice" /\ IsNil(v) => out = Ok(Nil)
      /\ Kind(v) = "slice" /\ ~IsNil(v) /\ Len(v.elems) = 0 =>
           /\ out = Ok(Values(indirectType(v.typ), <<>>))
           /\ out # constructValue(NilOf(v.typ), seed)
      /\ out.err = NoErr /\ HasEmptySlice(v) =>
           /\ constructValue(NilForEmpty(v), seed).err = NoErr
           /\ out # constructValue(NilForEmpty(v), seed)

NilDistinctionWitness ==
    /\ pc = "encoded"
    /\ Kind(v) = "struct"
    /\ HasEmptySlice(v)
    /\ out.err = NoErr

\* C3: when a value of a kind with no rule sits anywhere the recursion
\* visits, the call returns the error of such a value, unchanged, and the nil
\* expression; an error never comes with an expression, and without such a
\* value the call succeeds.
FailFast ==
    pc = "encoded" =>
      /\ UnsupportedIn(v) # {} =>
           /\ out.code = NoCode
           /\ out.err \in {UnsupportedKind(k) : k \in UnsupportedIn(v)}
      /\ out.err # NoErr => out.code = NoCode
      /\ UnsupportedIn(v) = {} => out.err = NoErr /\ out.code # NoCode

FailFastWitness ==
    /\ pc = "encoded"
    /\ Kind(v) = "struct"
    /\ Kind(v.elems[2]) = "interface" /\ ~IsNil(v.elems[2])
    /\ Kind(v.elems[2].elems[1]) = "map"
    /\ out = Fail(UnsupportedKind("chan"))

\* C4: the expression of a struct has exactly one entry per exported field,
\* named after it and holding its encoding, and none for an unexported
\* field; the call fails only for what an exported field holds.
FieldOmission ==
    pc = "encoded" /\ Kind(v) = "struct" =>
      LET exp == {i \in 1..NumField(v) : v.typ.fields[i].exported}
      IN  /\ out.err = NoErr <=> \A i \in exp : UnsupportedIn(v.elems[i]) = {}
          /\ out.err = NoErr =>
               /\ out.code.op = "dict"
               /\ Cardinality(out.code.dict) = Cardinality(exp)
               /\ {kv[1] : kv \in out.code.dict} = {Id(v.typ.fields[i].fname) : i \in exp}
               /\ \A i \in exp :
                    <<Id(v.typ.fields[i].fname), constructValue(v.elems[i], seed).code>>
                      \in out.code.dict

FieldOmissionWitness ==
    /\ pc = "encoded"
    /\ v.typ = MixedT
    /\ UnsupportedIn(v.elems[2]) # {}
    /\ out.err = NoErr
    /\ Cardinality(out.code.dict) = 1

\* C5: a non-nil interface slot is encoded exactly as the value it holds
\* (same expression or same error), a nil slot as the nil literal.
PolymorphicUnwrap ==
    pc = "encoded" /\ Kind(v) = "interface" =>
      IF IsNil(v) THEN out = Ok(Nil) ELSE out = constructValue(v.elems[1], seed)

PolymorphicUnwrapWitness ==
    /\ pc = "encoded"
    /\ Kind(v) = "interface" /\ ~IsNil(v)
    /\ Kind(v.elems[1]) = "struct"
    /\ out.err = NoErr
    /\ out.code.op = "dict"

\* C6: two runs on a value whose maps all have at most one entry return the
\* same result, whatever order each run iterates maps in.
Determinism ==
    pc = "again" /\ SmallMaps(v) => out2 = out

DeterminismWitness ==
    /\ pc = "again"
    /\ seed # seed2
    /\ Kind(v) = "struct"
    /\ \E i \in 1..Len(v.elems) :
         /\ ~IsNil(v.elems[i])
         /\ Kind(v.elems[i].elems[1]) = "map"
         /\ Len(v.elems[i].elems[1].ents) = 1
    /\ SmallMaps(v)
    /\ out.err = NoErr

\* C7: a scalar of any kind and width, of a builtin or a named type, is
\* emitted as a literal of the builtin type of exactly its kind carrying
\* exactly its value.
WidthFidelity ==
    pc = "encoded" /\ Kind(v) \in ScalarKinds =>
      out = Ok([op |-> "lit", ltyp |-> Kind(v), lpkg |-> "", lval |-> v.val])

WidthFidelityWitness ==
    /\ pc = "encoded"
    /\ v = Scalar(Builtin("float32"), 3)
    /\ out.code.ltyp = "float32"

(***************************************************************************)
(* The driver: generate and walkDirs.                                      *)
(*                                                                         *)
(* A path is the sequence of its components; "" is <<>> and "." is         *)
(* <<".">>.                                                                *)
(***************************************************************************)
Comps(p) == SelectSeq(p, LAMBDA c : c # ".")
\* path.Clean / filepath.Clean of a relative path without "..".
Clean(p) == IF Comps(p) = <<>> THEN <<".">> ELSE Comps(p)
\* filepath.Join(dir, name)
FilepathJoin(dir, name) == Clean(dir \o <<name>>)
\* path.Join(a, b): empty elements are ignored, all empty gives "".
PathJoin(a, b) == IF a = <<>> /\ b = <<>> THEN <<>> ELSE Clean(a \o b)
\* filepath.Rel(base, target) for a target at or below base.
Rel(base, target) ==
    LET r == SubSeq(Comps(target), Len(Comps(base)) + 1, Len(Comps(target)))
    IN  IF r = <<>> THEN <<".">> ELSE r

\* File names, in the order ioutil.ReadDir lists them (sorted by name).
Names == <<"a", "b">>
TreePaths ==
    {<<Names[i]>> : i \in DOMAIN Names}
    \cup {<<Names[i], Names[j]>> : i \in DOMAIN Names, j \in DOMAIN Names}
Trees ==
    {t \in [TreePaths -> {"none", "file", "dir"}] :
        /\ \A q \in TreePaths : Len(q) = 2 /\ t[q] # "none" => t[<<q[1]>>] = "dir"
        /\ Cardinality({q \in TreePaths : t[q] = "dir"}) + 1 <= MaxDirs}

\* What the file system holds at a path handed to ReadDir.
EntryAt(dir, name) ==
    LET q == Rel(flags.rootDir, dir \o <<name>>)
    IN  IF q \in DOMAIN tree THEN tree[q] ELSE "none"
ReadDir(dir) ==
    LET present == SelectSeq(Names, LAMBDA n : EntryAt(dir, n) # "none")
    IN  [i \in 1..Len(present) |->
           [name |-> present[i], isDir |-> EntryAt(dir, present[i]) = "dir"]]

Frame(dir) == [path |-> dir, files |-> <<>>, i |-> 1, phase |-> "read"]
Top == stack[Len(stack)]
SetTop(f) == [stack EXCEPT ![Len(stack)] = f]

\* How the callback of generate ends for a directory: what parser.ParseDir,
\* ast.Check, constructValue and File.Save make of its content.
Outcomes == {"parseErr", "noPkg", "multiPkg", "checkErr", "encodeErr", "saveErr", "ok"}
CallbackErr(o) == IF o \in {"noPkg", "ok"} THEN "" ELSE o
\* The callback got past ast.Check, to the pkgPath bookkeeping.
Checked(o) == o \in {"encodeErr", "saveErr", "ok"}

\* Faulty variant: every package path is listed, the root package included.
ListedPackage_always(pkgPath, pkgName) == TRUE

\* pkgPath != pkgName
ListedPackage(pkgPath, pkgName) == pkgPath # pkgName

\* Faulty variant: walkDirs drops the error of the callback.
WalkFail_ignored(e) == FALSE

\* if err := f(path); err != nil
WalkFail(e) == e # ""

EncIdle ==
    /\ v = NoValue
    /\ pc = "idle"
    /\ seed = 0
    /\ seed2 = 0
    /\ out = Ok(NoCode)
    /\ out2 = Ok(NoCode)
    /\ back = NoValue

GenInit ==
    /\ EncIdle
    /\ RecIdle
    /\ tree \in Trees
    \* --pkg "", "m" and the unclean "m/."; --root-dir "." and "std"
    /\ flags \in [pkgName : {<<>>, <<"m">>, <<"m", ".">>}, rootDir : {<<".">>, <<"std">>}]
    /\ stack = <<Frame(flags.rootDir)>>
    /\ log = <<>>
    /\ goPackages = <<>>
    /\ units = <<>>
    /\ imports = <<>>
    /\ dpc = "walk"
    /\ derr = ""

\* walkDirs: ioutil.ReadDir(path), which may fail.
WalkRead ==
    /\ dpc = "walk" /\ stack # <<>> /\ Top.phase = "read"
    /\ \E failed \in BOOLEAN :
         IF failed
         THEN /\ stack' = <<>>
              /\ derr' = "readDir"
              /\ dpc' = "returned"
         ELSE /\ stack' = SetTop([Top EXCEPT !.files = ReadDir(Top.path), !.phase = "call"])
              /\ UNCHANGED <<derr, dpc>>
    /\ UNCHANGED <<tree, flags, log, goPackages, units, imports>>
    /\ UNCHANGED <<encVars, recVars>>

\* walkDirs: f(path), the closure of generate, and the test of its error.
WalkCall ==
    /\ dpc = "walk" /\ stack # <<>> /\ Top.phase = "call"
    /\ \E o \in Outcomes :
         LET dir == Top.path
             pkgPath == PathJoin(flags.pkgName, dir)
         IN  /\ log' = Append(log, [dir |-> dir, outcome |-> o])
             /\ goPackages' =
                  IF Checked(o) /\ ListedPackage(pkgPath, flags.pkgName)
                  THEN Append(goPackages, pkgPath) ELSE goPackages
             /\ units' =
                  IF o = "ok"
                  THEN Append(units, [file |-> FilepathJoin(dir, "flux_gen.go"),
                                      path |-> Rel(flags.rootDir, dir)])
                  ELSE units
             /\ IF WalkFail(CallbackErr(o))
                THEN /\ stack' = <<>>
                     /\ derr' = CallbackErr(o)
                     /\ dpc' = "returned"
                ELSE /\ stack' = SetTop([Top EXCEPT !.phase = "loop"])
                     /\ UNCHANGED <<derr, dpc>>
    /\ UNCHANGED <<tree, flags, imports>>
    /\ UNCHANGED <<encVars, recVars>>

\* walkDirs: an entry that is no directory is passed over.
WalkSkip ==
    /\ dpc = "walk" /\ stack # <<>> /\ Top.phase = "loop"
    /\ Top.i <= Len(Top.files)
    /\ ~Top.files[Top.i].isDir
    /\ stack' = SetTop([Top EXCEPT !.i = @ + 1])
    /\ UNCHANGED <<tree, flags, log, goPackages, units, imports, dpc, derr>>
    /\ UNCHANGED <<encVars, recVars>>

\* walkDirs: the recursive call for a subdirectory.
WalkDescend ==
    /\ dpc = "walk" /\ stack # <<>> /\ Top.phase = "loop"
    /\ Top.i <= Len(Top.files)
    /\ Top.files[Top.i].isDir
    /\ stack' = Append(SetTop([Top EXCEPT !.i = @ + 1]),
                       Frame(FilepathJoin(Top.path, Top.files[Top.i].name)))
    /\ UNCHANGED <<tree, flags, log, goPackages, units, imports, dpc, derr>>
    /\ UNCHANGED <<encVars, recVars>>

\* walkDirs: return nil after the last entry.
WalkReturn ==
    /\ dpc = "walk" /\ stack # <<>> /\ Top.phase = "loop"
    /\ Top.i > Len(Top.files)
    /\ stack' = SubSeq(stack, 1, Len(stack) - 1)
    /\ dpc' = IF Len(stack) = 1 THEN "walked" ELSE dpc
    /\ UNCHANGED <<tree, flags, log, goPackages, units, imports, derr>>
    /\ UNCHANGED <<encVars, recVars>>

\* generate: the walk failed, its error is returned.
GenerateFail ==
    /\ dpc = "returned"
    /\ dpc' = "done"
    /\ UNCHANGED <<tree, flags, stack, log, goPackages, units, imports, derr>>
    /\ UNCHANGED <<encVars, recVars>>

\* generate: the import file is rendered and saved, which may fail.
WriteImport ==
    /\ dpc = "walked"
    /\ \E failed \in BOOLEAN :
         IF failed
         THEN derr' = "saveImport" /\ UNCHANGED imports
         ELSE imports' = Append(imports, goPackages) /\ UNCHANGED derr
    /\ dpc' = "done"
    /\ UNCHANGED <<tree, flags, stack, log, goPackages, units>>
    /\ UNCHANGED <<encVars, recVars>>

GenNext ==
    \/ WalkRead \/ WalkCall \/ WalkSkip \/ WalkDescend \/ WalkReturn
    \/ GenerateFail \/ WriteImport

SpecGenerate == GenInit /\ [][GenNext]_vars

(***************************************************************************)
(* Properties of the driver.                                               *)
(***************************************************************************)
Success == dpc = "done" /\ derr = ""
\* The directories of the tree, as the paths walkDirs hands out.
TreeDirs ==
    {flags.rootDir} \cup {Clean(flags.rootDir \o q) : q \in {r \in DOMAIN tree : tree[r] = "dir"}}
UnitOf(dir) ==
    [file |-> FilepathJoin(dir, "flux_gen.go"), path |-> Rel(flags.rootDir, dir)]
\* The log entries of the directories a unit was generated for.
Generated == SelectSeq(log, LAMBDA l : l.outcome = "ok")

RootUnlisted(dir) ==
    /\ dir = flags.rootDir
    /\ Comps(flags.rootDir) = <<>>
    /\ flags.pkgName # <<>>
    /\ Clean(flags.pkgName) = flags.pkgName

DriverFailFast ==
    /\ \A i \in 1..Len(log) :
         \/ i = 1 /\ log[i].dir = flags.rootDir
         \/ \E j \in 1..(i - 1) : \E k \in DOMAIN Names :
              log[i].dir = FilepathJoin(log[j].dir, Names[k])
    /\ \A i \in 1..Len(log) :
         log[i].outcome \in {"parseErr", "multiPkg", "checkErr", "encodeErr"} =>
           /\ i = Len(log)
           /\ \A j \in 1..Len(units) : units[j].file # FilepathJoin(log[i].dir, "flux_gen.go")
           /\ imports = <<>>
           /\ stack = <<>> /\ dpc \in {"returned", "done"}
           /\ derr = log[i].outcome

DriverFailFastWitness ==
    /\ dpc = "done"
    /\ Len(log) = 2
    /\ log[1].outcome = "ok" /\ log[2].outcome = "encodeErr"
    /\ Len(units) = 1
    /\ Cardinality(TreeDirs) = 3
    /\ imports = <<>>

(***************************************************************************)
(* constructValue as the recursion it is, one call and one return at a     *)
(* time, on a value graph in which a pointer, slice, map or interface slot *)
(* may lead back to a value that contains it.                              *)
(*                                                                         *)
(* heap[k] is a value: its kind, whether it is nil, the values it holds    *)
(* in order (kids), for a struct which fields are exported, and whether    *)
(* its type is self-referential (selfref): a type such as `type S []S`,    *)
(* `type M map[int]M` or `[1]S`, from which Elem() and Key() lead through   *)
(* slice, array, map and pointer types back to a type already met.         *)
(***************************************************************************)
Leaf(k) == [kind |-> k, isnil |-> FALSE, kids |-> <<>>, exported |-> <<>>, selfref |-> FALSE]

\* The containers: layouts of the contained values, "m" the value the chain
\* continues with, "i" an int, "c" a chan.
Shapes ==
    {[kind |-> k, lay |-> <<"m">>, exp |-> <<TRUE>>] :
        k \in {"ptr", "interface", "array", "slice", "map"}}
    \cup {[kind |-> "slice", lay |-> l, exp |-> <<TRUE, TRUE>>] :
            l \in {<<"c", "m">>, <<"m", "m">>}}
    \cup {[kind |-> "map", lay |-> <<"m", "c">>, exp |-> <<TRUE, TRUE>>]}
    \cup {[kind |-> "struct", lay |-> <<"m", "i">>, exp |-> e] :
            e \in {<<TRUE, TRUE>>, <<FALSE, TRUE>>}}
    \cup {[kind |-> "struct", lay |-> <<"c", "m">>, exp |-> <<TRUE, TRUE>>],
          [kind |-> "struct", lay |-> <<"m", "c">>, exp |-> <<TRUE, FALSE>>]}

RefKinds == {"ptr", "interface", "slice", "map"}
\* The kinds indirectType descends through; every other kind is rendered
\* by its name.
ElemKinds == {"map", "ptr", "array", "slice"}

\* Node i of a chain of n containers; the leaves sit at n + 1 and n + 2.
\* last is what the innermost container holds: 0 for nil, else a node.
ChainNode(sh, i, n, last, sr) ==
    LET m == IF i < n THEN i + 1 ELSE last
    IN  IF m = 0
        THEN [kind |-> sh.kind, isnil |-> TRUE, kids |-> <<>>, exported |-> <<>>,
              selfref |-> sr]
        ELSE [kind |-> sh.kind, isnil |-> FALSE,
              kids |-> [j \in DOMAIN sh.lay |->
                          CASE sh.lay[j] = "m" -> m
                            [] sh.lay[j] = "i" -> n + 1
                            [] sh.lay[j] = "c" -> n + 2],
              exported |-> sh.exp,
              selfref |-> sr]

\* The chain of n containers of the shapes sh around last; sr tells which
\* of them are of a self-referential type.
Chain(sh, n, last, sr) ==
    [k \in 1..(n + 2) |->
        CASE k <= n -> ChainNode(sh[k], k, n, last, sr[k])
          [] k = n + 1 -> Leaf("int")
          [] k = n + 2 -> Leaf("chan")]

WellFormed(sh, n, last) ==
    \* only a reference can be nil
    /\ last = 0 => sh[n].kind \in RefKinds /\ sh[n].lay = <<"m">>
    \* a value contains itself only through a reference
    /\ last \in 1..n => \E i \in last..n : sh[i].kind \in RefKinds

\* The types agree with the values: a struct, an interface and a scalar type
\* are rendered by name, so they are never self-referential in this sense;
\* the element type of a slice, array, map or pointer type is the type of
\* the values it holds, self-referential exactly when the container's is.
WellTyped(h) ==
    \A k \in DOMAIN h :
        /\ h[k].selfref => h[k].kind \in ElemKinds
        /\ h[k].kind \in ElemKinds =>
             \A j \in DOMAIN h[k].kids : h[h[k].kids[j]].selfref = h[k].selfref

IntNode == CHOOSE k \in DOMAIN heap : heap[k].kind = "int"
Unsupported(k) ==
    heap[k].kind \notin ScalarKinds \cup {"array", "slice", "interface", "ptr", "map", "struct"}

\* s := indirectType(v.Type()) does not return: the call is made (for an
\* array, a non-nil slice and a non-nil map; a struct type is rendered by
\* name) and the type leads back to itself.
Diverges(k) ==
    /\ heap[k].selfref
    /\ \/ heap[k].kind = "array"
       \/ heap[k].kind \in {"slice", "map"} /\ ~heap[k].isnil

\* The recursive calls constructValue makes for value k, in order; sd is
\* where this iteration over a map starts.  The keys of the maps are ints.
Calls(k, sd) ==
    LET c == heap[k]
        n == Len(c.kids)
        at == [j \in 1..n |-> ((j - 1 + sd) % n) + 1]
    IN  CASE c.kind = "array" -> c.kids
          [] c.kind \in {"slice", "interface", "ptr"} -> IF c.isnil THEN <<>> ELSE c.kids
          [] c.kind = "map" ->
               IF c.isnil THEN <<>>
               ELSE [j \in 1..(2 * n) |->
                       IF j % 2 = 1 THEN IntNode ELSE c.kids[at[j \div 2]]]
          [] c.kind = "struct" ->
               LET seen == SelectSeq([j \in 1..n |-> j], LAMBDA j : c.exported[j])
               IN  [j \in 1..Len(seen) |-> c.kids[seen[j]]]
          [] OTHER -> <<>>

RFrame(k, sd) == [node |-> k, calls |-> Calls(k, sd), i |-> 1]
RTop == rstack[Len(rstack)]
RecSeeds == 0..1

RecInit ==
    /\ EncIdle
    /\ DrvIdle
    /\ \E n \in 1..MaxNodes : \E sh \in [1..n -> Shapes] : \E last \in 0..(n + 2) :
       \E sr \in [1..n -> BOOLEAN] :
         /\ WellFormed(sh, n, last)
         /\ WellTyped(Chain(sh, n, last, sr))
         /\ heap = Chain(sh, n, last, sr)
    /\ rstack = <<>>
    /\ rpc = "start"
    /\ rerr = ""
    /\ peak = 0

\* constructValue(reflect.ValueOf(pkg)): the call from generate.
RecStart ==
    /\ rpc = "start"
    /\ \E sd \in RecSeeds : rstack' = <<RFrame(1, sd)>>
    /\ rpc' = "run"
    /\ peak' = 1
    /\ UNCHANGED <<heap, rerr>>
    /\ UNCHANGED <<encVars, drvVars>>

\* default: the kind has no rule; the error goes up through every caller.
RecFail ==
    /\ rpc = "run"
    /\ Unsupported(RTop.node)
    /\ rstack' = <<>>
    /\ rerr' = heap[RTop.node].kind
    /\ rpc' = "returned"
    /\ UNCHANGED <<heap, peak>>
    /\ UNCHANGED <<encVars, drvVars>>

\* s := indirectType(v.Type()) on a self-referential type: indirectType
\* calls itself on typ.Elem() without end, the runtime ends the process.
RecIndirectType ==
    /\ rpc = "run"
    /\ Diverges(RTop.node)
    /\ rpc' = "overflow"
    /\ UNCHANGED <<heap, rstack, rerr, peak>>
    /\ UNCHANGED <<encVars, drvVars>>

\* The next recursive call of the innermost call in progress.
RecCall ==
    /\ rpc = "run"
    /\ ~Unsupported(RTop.node)
    /\ ~Diverges(RTop.node)
    /\ RTop.i <= Len(RTop.calls)
    /\ Len(rstack) < MaxStack
    /\ \E sd \in RecSeeds :
         rstack' = Append([rstack EXCEPT ![Len(rstack)].i = @ + 1],
                          RFrame(RTop.calls[RTop.i], sd))
    /\ peak' = IF Len(rstack) + 1 > peak THEN Len(rstack) + 1 ELSE peak
    /\ UNCHANGED <<heap, rpc, rerr>>
    /\ UNCHANGED <<encVars, drvVars>>

\* The call that does not fit the stack: the runtime ends the process.
RecOverflow ==
    /\ rpc = "run"
    /\ ~Unsupported(RTop.node)
    /\ ~Diverges(RTop.node)
    /\ RTop.i <= Len(RTop.calls)
    /\ Len(rstack) = MaxStack
    /\ rpc' = "overflow"
    /\ UNCHANGED <<heap, rstack, rerr, peak>>
    /\ UNCHANGED <<encVars, drvVars>>

\* return s, nil: every call of this one is back.
RecReturn ==
    /\ rpc = "run"
    /\ ~Unsupported(RTop.node)
    /\ ~Diverges(RTop.node)
    /\ RTop.i > Len(RTop.calls)
    /\ rstack' = SubSeq(rstack, 1, Len(rstack) - 1)
    /\ rpc' = IF Len(rstack) = 1 THEN "returned" ELSE rpc
    /\ UNCHANGED <<heap, rerr, peak>>
    /\ UNCHANGED <<encVars, drvVars>>

RecNext == RecStart \/ RecFail \/ RecIndirectType \/ RecCall \/ RecOverflow \/ RecReturn

\* The recursion is synchronous code: a step that can be taken is taken.
SpecRecursion == RecInit /\ [][RecNext]_vars /\ WF_vars(RecNext)

(***************************************************************************)
(* Properties of the recursion.                                            *)
(***************************************************************************)
\* What a value holds, visited or not.
Held(k) == IF heap[k].isnil THEN {} ELSE {heap[k].kids[j] : j \in DOMAIN heap[k].kids}

\* The values reached from S in at most fuel steps of succ (a function from
\* a value to the values it leads to).
RECURSIVE Closure(_, _, _)
Closure(S, succ, fuel) ==
    IF fuel = 0 THEN S
    ELSE Closure(S \cup UNION {succ[k] : k \in S}, succ, fuel - 1)
Reach(S, succ) == Closure(S, succ, Len(heap))
HeldBy == [k \in DOMAIN heap |-> Held(k)]

\* The input reaches a value that reaches itself.
Cyclic == \E k \in Reach({1}, HeldBy) : k \in Reach(HeldBy[k], HeldBy)

Max(S) == CHOOSE i \in S : \A j \in S : j <= i
\* The nesting depth of an acyclic value.
RECURSIVE NestingDepth(_)
NestingDepth(k) == 1 + Max({0} \cup {NestingDepth(j) : j \in Held(k)})

\* C10, first half: on a finite acyclic value the call of constructValue
\* does not run without end (it returns an expression or an error) and
\* never nests deeper than the nesting depth of the value.
AcyclicTerminates == ~Cyclic => rpc # "overflow" /\ peak <= NestingDepth(1)

\* The second half of the same sentence: a value that reaches itself
\* through a pointer, slice, map or interface slot makes the recursion
\* never return.
CyclicNeverReturns == Cyclic => rpc # "returned"

====
